---------------------------- MODULE Spec2Model ----------------------------
(***************************************************************************)
(* A model of timetable.py: the lecturer mapping loop, the Group Name      *)
(* generation and the CBS session aggregation.                             *)
(*                                                                         *)
(* A Python str is a sequence of one-character strings, so that split,     *)
(* strip, upper, the regular expressions and strptime/strftime are         *)
(* computed on characters as the code computes them.  NaN is pandas'       *)
(* missing value.                                                          *)
(***************************************************************************)
EXTENDS Integers, Sequences, FiniteSets, TLC

VARIABLES
    stage,                  \* which part of the script the behaviour runs
    \* ---- lecturer mapping (lines 418-441)
    code_map,               \* build_code_to_username_map's dict
    put_extras_in_comments, \* the checkbox of line 369
    rows,                   \* the rows of `out` iterated so far: [Teachers, Comments]
    teachers_main, teachers_1, comments,
    unknown_all, extra_total,
    main, t1, unknown, extras,   \* the loop's (module level) variables
    out,                    \* the columns assigned at lines 439-441
    \* ---- Group Name generation (lines 444-467)
    intake_label, force_intake_override, group_map_df,
    students_sets,          \* the row's Students Sets as read from the CSV
    group_name,             \* out["Group Name"] of the row
    strategy,               \* which return statement of final_group_name produced it
    \* ---- CBS sessions (lines 280-310, 502-505)
    df_hourly,              \* the rows handed to build_sessions_for_cbs
    pending,                \* session keys groupby has still to yield
    sessions,               \* the list `sessions`
    pc                      \* where the script is; "raised": a ValueError escaped

vars == <<stage, code_map, put_extras_in_comments, rows, teachers_main, teachers_1,
          comments, unknown_all, extra_total, main, t1, unknown, extras, out,
          intake_label, force_intake_override, group_map_df, students_sets,
          group_name, strategy, df_hourly, pending, sessions, pc>>

teacherVars == <<code_map, put_extras_in_comments, rows, teachers_main, teachers_1,
                 comments, unknown_all, extra_total, main, t1, unknown, extras, out>>
groupVars   == <<intake_label, force_intake_override, group_map_df, students_sets,
                 group_name, strategy>>
sessionVars == <<df_hourly, pending, sessions>>

-----------------------------------------------------------------------------
(* Characters and Python's str methods *)

NaN == <<"NaN">>
isna(s) == s = NaN

\* The characters in code point order (the order sorted() compares str by).
CodePoints == <<"\t", " ", "&", "+", ",", "-", "/",
                "0","1","2","3","4","5","6","7","8","9", ":",
                "A","B","C","D","E","F","G","H","I","J","K","L","M",
                "N","O","P","Q","R","S","T","U","V","W","X","Y","Z",
                "[", "]", "_",
                "a","b","c","d","e","f","g","h","i","j","k","l","m",
                "n","o","p","q","r","s","t","u","v","w","x","y","z", "|">>
Ord(c) == CHOOSE i \in 1..Len(CodePoints) : CodePoints[i] = c

Digits     == {"0","1","2","3","4","5","6","7","8","9"}
UpperCase  == {"A","B","C","D","E","F","G","H","I","J","K","L","M",
               "N","O","P","Q","R","S","T","U","V","W","X","Y","Z"}
LowerCase  == {"a","b","c","d","e","f","g","h","i","j","k","l","m",
               "n","o","p","q","r","s","t","u","v","w","x","y","z"}
WhiteSpace == {" ", "\t"}                             \* \s
Alpha      == UpperCase \cup LowerCase                 \* [A-Za-z]
WordChars  == Alpha \cup Digits \cup {"_"}             \* \w
ProgChars  == Alpha \cup {"&"}                         \* [A-Z&] with re.IGNORECASE

\* str.upper on one character and on a str
UpperChar(c) == IF c \in LowerCase THEN CodePoints[Ord(c) - Ord("a") + Ord("A")] ELSE c
upper(s) == [i \in 1..Len(s) |-> UpperChar(s[i])]

\* The end (exclusive) of the longest run of characters of class C from i on.
RunEnd(s, i, C) ==
    CHOOSE j \in i..(Len(s) + 1) :
        /\ \A k \in i..(j - 1) : s[k] \in C
        /\ (j = Len(s) + 1 \/ s[j] \notin C)

\* str.strip(chars): the characters of the set cs are dropped at both ends.
RECURSIVE lstrip(_, _)
lstrip(s, cs) == IF s # <<>> /\ Head(s) \in cs THEN lstrip(Tail(s), cs) ELSE s
RECURSIVE rstrip(_, _)
rstrip(s, cs) ==
    IF s # <<>> /\ s[Len(s)] \in cs THEN rstrip(SubSeq(s, 1, Len(s) - 1), cs) ELSE s
strip_chars(s, cs) == rstrip(lstrip(s, cs), cs)
strip(s) == strip_chars(s, WhiteSpace)

\* str.split(c): the pieces between the occurrences of c, the empty ones too.
RECURSIVE SplitRec(_, _, _, _)
SplitRec(s, c, cur, acc) ==
    IF s = <<>> THEN Append(acc, cur)
    ELSE IF Head(s) = c THEN SplitRec(Tail(s), c, <<>>, Append(acc, cur))
    ELSE SplitRec(Tail(s), c, Append(cur, Head(s)), acc)
split(s, c) == SplitRec(s, c, <<>>, <<>>)

\* sep.join(parts)
RECURSIVE join(_, _)
join(sep, parts) ==
    IF parts = <<>> THEN <<>>
    ELSE IF Len(parts) = 1 THEN parts[1]
    ELSE parts[1] \o sep \o join(sep, Tail(parts))

\* re.sub(r"\s+", " ", s): every run of white space becomes one space.
RECURSIVE CollapseSpace(_)
CollapseSpace(s) ==
    IF s = <<>> THEN <<>>
    ELSE IF Head(s) \in WhiteSpace
         THEN <<" ">> \o CollapseSpace(SubSeq(s, RunEnd(s, 1, WhiteSpace), Len(s)))
         ELSE <<Head(s)>> \o CollapseSpace(Tail(s))

norm(s) == IF isna(s) THEN <<>> ELSE strip(CollapseSpace(s))

\* int(str) of a run of digits, and str(int)
RECURSIVE int(_)
int(s) == IF s = <<>> THEN 0 ELSE 10 * int(SubSeq(s, 1, Len(s) - 1)) + (Ord(s[Len(s)]) - Ord("0"))
RECURSIVE str(_)
str(n) == IF n < 10 THEN <<CodePoints[Ord("0") + n]>>
          ELSE str(n \div 10) \o <<CodePoints[Ord("0") + (n % 10)]>>

\* Python's < on str: by code point, a proper prefix first.
RECURSIVE StrLess(_, _)
StrLess(a, b) ==
    IF b = <<>> THEN FALSE
    ELSE IF a = <<>> THEN TRUE
    ELSE IF Head(a) # Head(b) THEN Ord(Head(a)) < Ord(Head(b))
    ELSE StrLess(Tail(a), Tail(b))

\* sorted() of a set of str, and of a set of int
RECURSIVE sorted_strs(_)
sorted_strs(S) ==
    IF S = {} THEN <<>>
    ELSE LET m == CHOOSE x \in S : \A y \in S \ {x} : StrLess(x, y)
         IN  <<m>> \o sorted_strs(S \ {m})
RECURSIVE sorted_ints(_)
sorted_ints(S) ==
    IF S = {} THEN <<>>
    ELSE LET m == CHOOSE x \in S : \A y \in S : x <= y
         IN  <<m>> \o sorted_ints(S \ {m})

Range(f) == {f[i] : i \in DOMAIN f}

-----------------------------------------------------------------------------
(* Lecturer code mapping *)

nonempty_stripped(pieces) ==
    SelectSeq([i \in DOMAIN pieces |-> strip(pieces[i])], LAMBDA t : t # <<>>)
split_teacher_codes(raw_teachers) ==
    IF isna(raw_teachers) THEN <<>> ELSE nonempty_stripped(split(raw_teachers, "+"))

\* Faulty variant: the token is looked up as written, not uppercased
MapOneExact(c, cm) == IF c \in DOMAIN cm THEN cm[c] ELSE c
\* one pass of the loop of lines 94-100: what is appended to `mapped`
MapOne(c, cm) == IF upper(c) \in DOMAIN cm THEN cm[upper(c)] ELSE c

\* lines 102-105, given the lists `codes` and `mapped`
teachers_result(codes, mapped, cm) ==
    [main    |-> IF Len(mapped) >= 1 THEN mapped[1] ELSE <<>>,
     t1      |-> IF Len(mapped) >= 2 THEN mapped[2] ELSE <<>>,
     unknown |-> SelectSeq(codes, LAMBDA c : upper(c) \notin DOMAIN cm),
     extras  |-> IF Len(mapped) > 2 THEN SubSeq(mapped, 3, Len(mapped)) ELSE <<>>]
\* lines 93-100: the loop over the codes
map_codes(codes, cm) ==
    teachers_result(codes, [i \in DOMAIN codes |-> MapOne(codes[i], cm)], cm)
\* Returns [main, t1, unknown, extras]
map_teachers(raw_teachers, cm) == map_codes(split_teacher_codes(raw_teachers), cm)

\* Lines 430-435: the row's comment
row_comment(old, xs, flag) ==
    LET comment   == norm(old)
        extra_txt == <<"E","x","t","r","a"," ","l","e","c","t","u","r","e","r","s",":"," ">> \o join(<<" ","+"," ">>, xs)
    IN  IF xs # <<>> /\ flag
        THEN IF comment # <<>>
             THEN strip_chars(comment \o <<" ","|"," ">> \o extra_txt, {" ", "|"})
             ELSE extra_txt
        ELSE comment

\* ---- inputs of the lecturer mapping
MaxTokens == 3
RawTokens == { <<"a">>, <<" ","Z","z"," ">>, <<>> }
RECURSIVE TokenSeqs(_)
TokenSeqs(n) ==
    IF n = 0 THEN {<<>>}
    ELSE TokenSeqs(n - 1) \cup
         {Append(q, t) : q \in {p \in TokenSeqs(n - 1) : Len(p) = n - 1}, t \in RawTokens}
TeacherCells == {join(<<"+">>, q) : q \in TokenSeqs(MaxTokens)} \cup {NaN}
\* The Comments column: absent (line 415 makes it ""), or the same note in every row
CommentCells == { <<>>, <<"w","k"," ","1"," ","|">> }
CodeMaps == { [k \in { <<"A">> } |-> <<"A","n","n"," ","L","e","e">>],
              [k \in { <<"A">>, <<"Z","Z">> } |-> IF k = <<"A">> THEN <<"A","n","n"," ","L","e","e">> ELSE <<"Z","e","d"," ","K","i","m">>] }
TableRows == {1, 2}     \* the timetable has one or two rows

InitTeachers ==
    /\ stage = "teachers"
    /\ code_map \in CodeMaps
    /\ put_extras_in_comments \in BOOLEAN
    /\ rows = <<>>
    /\ teachers_main = <<>> /\ teachers_1 = <<>> /\ comments = <<>>
    /\ unknown_all = {} /\ extra_total = 0
    /\ main = <<>> /\ t1 = <<>> /\ unknown = <<>> /\ extras = <<>>
    /\ out = <<>>
    /\ intake_label = <<>> /\ force_intake_override = FALSE /\ group_map_df = [present |-> FALSE, table |-> <<>>]
    /\ students_sets = <<>> /\ group_name = <<>> /\ strategy = "none"
    /\ df_hourly = <<>> /\ pending = <<>> /\ sessions = <<>>
    /\ pc = "run"

\* One pass of the loop of lines 422-437 on the next row of the timetable.
LecturerRow ==
    /\ stage = "teachers" /\ pc = "run"
    /\ Len(rows) < Cardinality(TableRows)
    /\ \E cell \in TeacherCells,
          old \in IF rows = <<>> THEN CommentCells ELSE {rows[1].Comments} :
         \E r \in {map_teachers(cell, code_map)} :
             /\ rows' = Append(rows, [Teachers |-> cell, Comments |-> old])
             /\ main' = r.main /\ t1' = r.t1 /\ unknown' = r.unknown /\ extras' = r.extras
             /\ teachers_main' = Append(teachers_main, r.main)
             /\ teachers_1' = Append(teachers_1, r.t1)
             /\ unknown_all' = unknown_all \cup Range(r.unknown)
             /\ extra_total' = IF r.extras # <<>> /\ put_extras_in_comments
                               THEN extra_total + Len(r.extras) ELSE extra_total
             /\ comments' = Append(comments, row_comment(old, r.extras, put_extras_in_comments))
    /\ UNCHANGED <<stage, code_map, put_extras_in_comments, out, groupVars, sessionVars, pc>>

\* Lines 439-441, after the last row.
AssignTeacherColumns ==
    /\ stage = "teachers" /\ pc = "run"
    /\ rows # <<>>
    /\ out' = [i \in DOMAIN rows |->
                 [Teachers |-> teachers_main[i], Teacher1 |-> teachers_1[i],
                  Comments |-> comments[i]]]
    /\ pc' = "done"
    /\ UNCHANGED <<stage, code_map, put_extras_in_comments, rows, teachers_main, teachers_1,
                   comments, unknown_all, extra_total, main, t1, unknown, extras,
                   groupVars, sessionVars>>

NextTeachers == LecturerRow \/ AssignTeacherColumns
SpecTeachers == InitTeachers /\ [][NextTeachers]_vars

-----------------------------------------------------------------------------
(* Group Name from coded Students Sets *)

\* re.search of r"\bL\d+\s+([A-Z&]{2,})\s*-\s*[A-Z]*?(\d+)\b" (IGNORECASE) with the
\* match starting at i: <<group(1), group(2)>>, or <<>> when there is none.  Each
\* repetition is followed by a character outside its class, so the greedy run is
\* the only candidate and no shorter run can match.
CodeMatchAt(p, i) ==
    IF ~(p[i] \in {"L", "l"} /\ (i = 1 \/ p[i - 1] \notin WordChars)) THEN <<>>
    ELSE LET d == RunEnd(p, i + 1, Digits) IN
    IF d = i + 1 THEN <<>>
    ELSE LET w == RunEnd(p, d, WhiteSpace) IN
    IF w = d THEN <<>>
    ELSE LET g == RunEnd(p, w, ProgChars) IN
    IF g - w < 2 THEN <<>>
    ELSE LET h == RunEnd(p, g, WhiteSpace) IN
    IF h > Len(p) \/ p[h] # "-" THEN <<>>
    ELSE LET a == RunEnd(p, h + 1, WhiteSpace)
             b == RunEnd(p, a, Alpha)
             e == RunEnd(p, b, Digits)
         IN  IF e = b \/ (e <= Len(p) /\ p[e] \in WordChars) THEN <<>>
             ELSE <<SubSeq(p, w, g - 1), SubSeq(p, b, e - 1)>>

CodeSearch(p) ==
    LET hits == {i \in 1..Len(p) : CodeMatchAt(p, i) # <<>>}
    IN  IF hits = {} THEN <<>>
        ELSE CodeMatchAt(p, CHOOSE i \in hits : \A j \in hits : i <= j)

\* Faulty variant: the numbers are ordered as text ("10" before "9"), not as integers
RECURSIVE sorted_as_text(_)
sorted_as_text(S) ==
    IF S = {} THEN <<>>
    ELSE LET m == CHOOSE x \in S : \A y \in S \ {x} : StrLess(str(x), str(y))
         IN  <<m>> \o sorted_as_text(S \ {m})
\* line 133: sorted(set(out[prog]))
sorted_set(nums) == sorted_ints(nums)

\* Lines 128-133 on the matches of the parts (<<>> where a part has none): the
\* dict {prog: sorted distinct numbers}, as a function on the programs found.
groups_of_matches(ms) ==
    LET found == {k \in DOMAIN ms : ms[k] # <<>>}
    IN  [p \in {upper(ms[k][1]) : k \in found} |->
            sorted_set({int(ms[k][2]) : k \in {j \in found : upper(ms[j][1]) = p}})]
parts_of(s) == split(s, "+")
matches_of(parts) == [k \in DOMAIN parts |-> CodeSearch(strip(parts[k]))]
extract_groups_from_codes(ss) ==
    IF norm(ss) = <<>> THEN <<>>
    ELSE groups_of_matches(matches_of(parts_of(norm(ss))))

nums_str(nums) == join(<<",">>, [k \in DOMAIN nums |-> str(nums[k])])

\* lines 150-156 and 207-213: SE, then CS, then the other programs sorted
program_order(progs) ==
    LET first == SelectSeq(<< <<"S","E">>, <<"C","S">> >>, LAMBDA p : p \in progs)
    IN  first \o sorted_strs(progs \ Range(first))

\* Faulty variant: the intake label in front of every program
render_segments_each_prefixed(prefix, order, body) ==
    join(<<" ","/"," ">>, [k \in DOMAIN order |-> prefix \o <<" ">> \o order[k] \o <<"-"," ">> \o body[order[k]]])
\* lines 158-165 and 215-227: the label of the programs of `order`, body[p] being
\* the text after "p- "
render_segments(prefix, order, body) ==
    IF Len(order) = 1
    THEN prefix \o <<" ">> \o order[1] \o <<"-"," ">> \o body[order[1]]
    ELSE join(<<" ","/"," ">>,
              [k \in DOMAIN order |->
                  IF k = 1 THEN prefix \o <<" ">> \o order[1] \o <<"-"," ">> \o body[order[1]]
                  ELSE order[k] \o <<"-"," ">> \o body[order[k]]])

label_of_groups(groups, label) ==
    IF DOMAIN groups = {} THEN <<>>
    ELSE render_segments(label, program_order(DOMAIN groups),
                         [p \in DOMAIN groups |-> nums_str(groups[p])])
build_group_name_from_codes(ss, label) ==
    label_of_groups(extract_groups_from_codes(ss), label)

-----------------------------------------------------------------------------
(* Group Mapping Excel *)

None == [present |-> FALSE, table |-> <<>>]

\* lines 185-189: the columns normalised, Program uppercased
load_group_map(raw) ==
    [present |-> TRUE,
     table   |-> [k \in DOMAIN raw |->
                    [StudentsSets |-> norm(raw[k].StudentsSets),
                     Level        |-> norm(raw[k].Level),
                     Intake       |-> norm(raw[k].Intake),
                     Program      |-> upper(norm(raw[k].Program)),
                     Groups       |-> norm(raw[k].Groups)]]]

label_of_rows(sub) ==
    IF sub = <<>> THEN <<>>
    ELSE render_segments(sub[1].Level \o <<" ">> \o sub[1].Intake,
                         program_order({sub[k].Program : k \in DOMAIN sub}),
                         [p \in {sub[k].Program : k \in DOMAIN sub} |->
                            sub[CHOOSE k \in DOMAIN sub :
                                   /\ sub[k].Program = p
                                   /\ \A j \in 1..(k - 1) : sub[j].Program # p].Groups])
matching_rows(s, gm) == SelectSeq(gm.table, LAMBDA r : r.StudentsSets = s)
group_name_from_map(ss, gm) == label_of_rows(matching_rows(norm(ss), gm))

\* The end (exclusive) of the match of r"^L\d+\s+[A-Za-z]+\s+\d+\s+" in s, 0 when
\* there is none.
IntakePrefixEnd(s) ==
    IF s = <<>> \/ s[1] # "L" THEN 0
    ELSE LET d1 == RunEnd(s, 2, Digits)
             w1 == RunEnd(s, d1, WhiteSpace)
             a  == RunEnd(s, w1, Alpha)
             w2 == RunEnd(s, a, WhiteSpace)
             d2 == RunEnd(s, w2, Digits)
             w3 == RunEnd(s, d2, WhiteSpace)
         IN  IF d1 > 2 /\ w1 > d1 /\ a > w1 /\ w2 > a /\ d2 > w2 /\ w3 > d2
             THEN w3 ELSE 0

\* Faulty variant: the label is put in front without removing the table's prefix
override_intake_prepend(section_text, label) ==
    LET s == norm(section_text) IN IF s = <<>> THEN s ELSE label \o <<" ">> \o s
replace_prefix(s, e, label) ==
    IF s = <<>> THEN s
    ELSE IF e = 0 THEN s
    ELSE label \o <<" ">> \o SubSeq(s, e, Len(s))
override_intake_prefix(section_text, label) ==
    replace_prefix(norm(section_text), IntakePrefixEnd(norm(section_text)), label)

\* Faulty variant: coded groups are tried before the mapping file
choose_label_codes_first(s, present, mapped, parsed, force, label) ==
    IF parsed # <<>> THEN [name |-> parsed, strategy |-> "codes"]
    ELSE IF present /\ mapped # <<>>
    THEN [name |-> IF force THEN override_intake_prefix(mapped, label) ELSE mapped,
          strategy |-> "map"]
    ELSE [name |-> strip(label \o <<" ">> \o s), strategy |-> "fallback"]
\* lines 447-461, given what the two strategies return
choose_label(s, present, mapped, parsed, force, label) ==
    IF present /\ mapped # <<>>
    THEN [name |-> IF force THEN override_intake_prefix(mapped, label) ELSE mapped,
          strategy |-> "map"]
    ELSE IF parsed # <<>> THEN [name |-> parsed, strategy |-> "codes"]
    ELSE [name |-> strip(label \o <<" ">> \o s), strategy |-> "fallback"]
\* lines 444-461
final_group_name(ss, gm, force, label) ==
    choose_label(norm(ss), gm.present,
                 IF gm.present THEN group_name_from_map(norm(ss), gm) ELSE <<>>,
                 build_group_name_from_codes(norm(ss), label),
                 force, label)

\* ---- inputs of the Group Name generation
MaxParts == 3
Segments == { <<"L","5"," ","C","S"," ","-","G","1">>, <<"L","5"," ","C","S"," ","-","G","2">>, <<"L","5"," ","S","E"," ","-","G","1","0">>, <<"L","5"," ","s","e"," ","-"," ","9">>,
              <<"L","6"," ","A","I","&","D","S"," ","-","A","0","2">>, <<"l","6"," ","i","t","-","b","7">>, <<"S","t","a","g","e"," ","1"," "," ","[","J","A","N","]">> }
\* the segments tried against a mapping table
MappedSegments == { <<"L","5"," ","C","S"," ","-","G","1">>, <<"L","5"," ","S","E"," ","-","G","1","0">>, <<"S","t","a","g","e"," ","1"," "," ","[","J","A","N","]">> }
RECURSIVE SegmentSeqs(_, _)
SegmentSeqs(segs, n) ==
    IF n = 0 THEN {<<>>}
    ELSE SegmentSeqs(segs, n - 1) \cup
         {Append(q, t) : q \in {p \in SegmentSeqs(segs, n - 1) : Len(p) = n - 1}, t \in segs}
StudentsSetsCells(segs) == {join(<<"+">>, q) : q \in SegmentSeqs(segs, MaxParts)}
IntakeLabels == { <<"L","5"," ","J","a","n"," ","2","6">>, <<>>, <<" ">> }
MapRow(ss, lv, it, pr, gr) ==
    [StudentsSets |-> ss, Level |-> lv, Intake |-> it, Program |-> pr, Groups |-> gr]
GroupMapFiles ==
    { << MapRow(<<"S","t","a","g","e"," ","1"," ","[","J","A","N","]">>, <<"L","4">>, <<"J","a","n"," "," ","2","6">>, <<"c","s">>, <<"4",",","1","7">>),
         MapRow(<<" ","S","t","a","g","e"," ","1"," ","[","J","A","N","]">>, <<"L","4">>, <<"J","a","n"," ","2","6">>, <<"S","E">>, <<"1","0">>),
         MapRow(<<"L","5"," ","C","S"," ","-","G","1">>, <<"L","4","4">>, <<"S","e","p","t"," ","2","0","2","5">>, <<"I","T">>, <<"7">>) >>,
      << MapRow(<<"S","t","a","g","e"," ","1"," ","[","J","A","N","]">>, <<"L","e","v","e","l"," ","4">>, <<"S","p","r","i","n","g">>, <<"C","S">>, <<"4",",","1","7">>),
         MapRow(<<"L","5"," ","C","S"," ","-","G","1">>, <<"L","4">>, <<"J","a","n","-","2","6">>, <<"C","S">>, <<"1">>) >> }

InitGroups ==
    /\ stage = "groups"
    /\ intake_label \in IntakeLabels
    /\ force_intake_override \in BOOLEAN
    /\ \/ /\ group_map_df = None
          /\ students_sets \in StudentsSetsCells(Segments)
       \/ /\ group_map_df \in {load_group_map(f) : f \in GroupMapFiles}
          /\ students_sets \in StudentsSetsCells(MappedSegments)
    /\ group_name = <<>> /\ strategy = "none"
    /\ code_map = <<>> /\ put_extras_in_comments = FALSE /\ rows = <<>>
    /\ teachers_main = <<>> /\ teachers_1 = <<>> /\ comments = <<>>
    /\ unknown_all = {} /\ extra_total = 0
    /\ main = <<>> /\ t1 = <<>> /\ unknown = <<>> /\ extras = <<>> /\ out = <<>>
    /\ df_hourly = <<>> /\ pending = <<>> /\ sessions = <<>>
    /\ pc = "run"

\* Line 412: out["Students Sets"] = out["Students Sets"].map(norm)
NormStudentsSets ==
    /\ stage = "groups" /\ pc = "run"
    /\ students_sets' = norm(students_sets)
    /\ pc' = "normed"
    /\ UNCHANGED <<stage, teacherVars, intake_label, force_intake_override, group_map_df,
                   group_name, strategy, sessionVars>>

\* Line 464: out["Group Name"] = out["Students Sets"].apply(final_group_name)
GenerateGroupName ==
    /\ stage = "groups" /\ pc = "normed"
    /\ \E r \in {final_group_name(students_sets, group_map_df, force_intake_override,
                                  intake_label)} :
         /\ group_name' = r.name
         /\ strategy' = r.strategy
    /\ pc' = "done"
    /\ UNCHANGED <<stage, teacherVars, intake_label, force_intake_override, group_map_df,
                   students_sets, sessionVars>>

NextGroups == NormStudentsSets \/ GenerateGroupName
SpecGroups == InitGroups /\ [][NextGroups]_vars

-----------------------------------------------------------------------------
(* CBS sessions *)

\* A datetime is the number of minutes since 1900-01-01 00:00, the date strptime
\* gives a time of day; ValueError stands for the exception strptime raises.
ValueError == -1
MinutesPerHour == 60
HoursPerDay == 24

\* datetime.strptime(t.strip(), "%H:%M"): %H is one or two digits up to 23, %M one
\* or two digits up to 59, and nothing may follow.
parse_time_hhmm(t) ==
    LET s  == strip(t)
        d1 == RunEnd(s, 1, Digits)
        hh == SubSeq(s, 1, d1 - 1)
    IN  IF ~(Len(hh) \in {1, 2} /\ int(hh) < HoursPerDay /\ d1 <= Len(s) /\ s[d1] = ":")
        THEN ValueError
        ELSE LET d2 == RunEnd(s, d1 + 1, Digits)
                 mm == SubSeq(s, d1 + 1, d2 - 1)
             IN  IF Len(mm) \in {1, 2} /\ int(mm) < MinutesPerHour /\ d2 = Len(s) + 1
                 THEN int(hh) * MinutesPerHour + int(mm)
                 ELSE ValueError

two_digits(n) == IF n < 10 THEN <<"0">> \o str(n) ELSE str(n)
\* dt.strftime("%H:%M:%S"): the time of day, the date is not rendered
fmt_time_hhmmss(dt) ==
    two_digits((dt \div MinutesPerHour) % HoursPerDay) \o <<":">>
        \o two_digits(dt % MinutesPerHour) \o <<":","0","0">>

\* line 303: end = hours[-1] + timedelta(hours=1)
span_end(hours) == hours[Len(hours)] + MinutesPerHour

\* The session key of a row (lines 289-292).  Of the nine columns the tables of
\* the model differ in Activity Id only.
session_key(r) ==
    <<r.ActivityId, r.Day, r.StudentsSets, r.GroupName, r.Subject, r.Room,
      r.Teachers, r.Teacher1, r.ActivityTags>>

\* The rows of group k in table order, and the group's distinct non-empty hours in
\* order of first appearance (g["Hour"].dropna().unique(), filtered by `if x`).
group_rows(df, k) == SelectSeq(df, LAMBDA r : session_key(r) = k)
RECURSIVE unique(_)
unique(xs) ==
    IF xs = <<>> THEN <<>>
    ELSE LET rest == unique(SubSeq(xs, 1, Len(xs) - 1))
         IN  IF xs[Len(xs)] \in Range(rest) THEN rest ELSE Append(rest, xs[Len(xs)])
group_hours(g) ==
    SelectSeq(unique([i \in DOMAIN g |-> g[i].Hour]), LAMBDA x : x # <<>>)

\* One pass of the loop of lines 298-308 on group g: "raise", "skip", or the row
\* appended to `sessions`.
session_of(g) ==
    LET texts  == group_hours(g)
        parsed == [i \in DOMAIN texts |-> parse_time_hhmm(texts[i])]
    IN  IF ValueError \in Range(parsed) THEN [kind |-> "raise"]
        ELSE IF parsed = <<>> THEN [kind |-> "skip"]
        ELSE LET hours == sorted_ints(Range(parsed))
             IN  [kind |-> "row",
                  row  |-> [key  |-> session_key(g[1]),
                            Hour |-> g[1].Hour,
                            From |-> fmt_time_hhmmss(hours[1]),
                            To   |-> fmt_time_hhmmss(span_end(hours))]]

\* ---- inputs of the session aggregation
MaxRows == 3
HourCells == { <<>>, <<"0","8",":","0","0">>, <<" ","9",":","0","0">>, <<"1","4",":","0","0">>, <<"2","3",":","3","0">>, <<"8",".","3","0">> }
ActivityIds == {1, 2}
HourlyRow(id, h) ==
    [ActivityId |-> id, Day |-> "Mon", StudentsSets |-> "L5 CS -G1",
     GroupName |-> "L5 Jan 26 CS- 1", Subject |-> "Algebra", Room |-> "R1",
     Teachers |-> "Ann Lee", Teacher1 |-> "", ActivityTags |-> "LEC", Hour |-> h]
HourlyRows == {HourlyRow(id, h) : id \in ActivityIds, h \in HourCells}
RECURSIVE Tables(_)
Tables(n) ==
    IF n = 0 THEN {<<>>}
    ELSE Tables(n - 1) \cup
         {Append(q, r) : q \in {p \in Tables(n - 1) : Len(p) = n - 1}, r \in HourlyRows}

InitSessions ==
    /\ stage = "sessions"
    /\ df_hourly \in Tables(MaxRows) \ {<<>>}
    /\ pending = <<>> /\ sessions = <<>>
    /\ code_map = <<>> /\ put_extras_in_comments = FALSE /\ rows = <<>>
    /\ teachers_main = <<>> /\ teachers_1 = <<>> /\ comments = <<>>
    /\ unknown_all = {} /\ extra_total = 0
    /\ main = <<>> /\ t1 = <<>> /\ unknown = <<>> /\ extras = <<>> /\ out = <<>>
    /\ intake_label = <<>> /\ force_intake_override = FALSE /\ group_map_df = None
    /\ students_sets = <<>> /\ group_name = <<>> /\ strategy = "none"
    /\ pc = "run"

\* Lines 286-298: Hour normalised, and groupby's groups in sorted key order.
GroupHourly ==
    /\ stage = "sessions" /\ pc = "run"
    /\ df_hourly' = [i \in DOMAIN df_hourly |->
                        [df_hourly[i] EXCEPT !.Hour = norm(df_hourly[i].Hour)]]
    /\ pending' = LET ids == {df_hourly[i].ActivityId : i \in DOMAIN df_hourly}
                      ord == sorted_ints(ids)
                  IN  [k \in DOMAIN ord |->
                         session_key(df_hourly[CHOOSE i \in DOMAIN df_hourly :
                                                  df_hourly[i].ActivityId = ord[k]])]
    /\ pc' = "loop"
    /\ UNCHANGED <<stage, teacherVars, groupVars, sessions>>

\* Lines 298-308, one group: a row is appended, an empty group skipped, or the
\* ValueError of an Hour that does not parse leaves the function and the script.
BuildSession ==
    /\ stage = "sessions" /\ pc = "loop"
    /\ pending # <<>>
    /\ \E r \in {session_of(group_rows(df_hourly, Head(pending)))} :
         \/ /\ r.kind = "row"
            /\ sessions' = Append(sessions, r.row)
            /\ pending' = Tail(pending)
            /\ pc' = pc
         \/ /\ r.kind = "skip"
            /\ pending' = Tail(pending)
            /\ UNCHANGED <<sessions, pc>>
         \/ /\ r.kind = "raise"
            /\ pc' = "raised"
            /\ sessions' = <<>>
            /\ UNCHANGED pending
    /\ UNCHANGED <<stage, teacherVars, groupVars, df_hourly>>

\* Lines 310 and 502-505: the sessions are returned; with none the script stops.
ReturnSessions ==
    /\ stage = "sessions" /\ pc = "loop"
    /\ pending = <<>>
    /\ pc' = IF sessions = <<>> THEN "stopped" ELSE "done"
    /\ UNCHANGED <<stage, teacherVars, groupVars, sessionVars>>

NextSessions == GroupHourly \/ BuildSession \/ ReturnSessions
SpecSessions == InitSessions /\ [][NextSessions]_vars

-----------------------------------------------------------------------------
(* Properties of the lecturer mapping *)

Min(S) == CHOOSE x \in S : \A y \in S : x <= y
Max(S) == CHOOSE x \in S : \A y \in S : x >= y

\* The tokens of a cell read off its characters: the text between two neighbouring
\* '+' (or an end of the cell), from its first to its last character that is not
\* white space, in the order of the cell; a stretch of white space only is no token.
InkSpan(raw, ink) == IF ink = {} THEN <<>> ELSE SubSeq(raw, Min(ink), Max(ink))
TokenBetween(raw, a, b) == InkSpan(raw, {i \in (a + 1)..(b - 1) : raw[i] \notin WhiteSpace})
TokensBetween(raw, cuts) ==
    SelectSeq([k \in 1..(Len(cuts) - 1) |-> TokenBetween(raw, cuts[k], cuts[k + 1])],
              LAMBDA t : t # <<>>)
TokensOf(raw) ==
    TokensBetween(raw, sorted_ints({0, Len(raw) + 1} \cup {i \in 1..Len(raw) : raw[i] = "+"}))

Known(t) == upper(t) \in DOMAIN code_map
Entry(t) == IF Known(t) THEN code_map[upper(t)] ELSE t
ExpectedTeachers(toks) ==
    [main    |-> IF Len(toks) >= 1 THEN Entry(toks[1]) ELSE <<>>,
     t1      |-> IF Len(toks) >= 2 THEN Entry(toks[2]) ELSE <<>>,
     unknown |-> SelectSeq(toks, LAMBDA t : ~Known(t)),
     extras  |-> [k \in 1..(IF Len(toks) > 2 THEN Len(toks) - 2 ELSE 0) |-> Entry(toks[k + 2])]]
LastCell == rows[Len(rows)].Teachers

\* C1: what map_teachers returned for the last row is, for the cell's tokens in
\* the order of the cell (none for a missing or empty cell): main the entry of the
\* first token, t1 that of the second, extras those of the third token onward,
\* unknown the tokens whose uppercased form is not in the code map; the entry of a
\* token is its display name if its uppercased form is in the map, else the token.
C1_MapTeachers ==
    (stage = "teachers" /\ rows # <<>>) =>
        /\ [main |-> main, t1 |-> t1, unknown |-> unknown, extras |-> extras]
              = ExpectedTeachers(IF isna(LastCell) THEN <<>> ELSE TokensOf(LastCell))
        /\ (isna(LastCell) \/ LastCell = <<>>) =>
              main = <<>> /\ t1 = <<>> /\ unknown = <<>> /\ extras = <<>>

\* C1's case: a cell of three tokens, one padded with spaces and not in the map,
\* two mapped (the second time as overflow).
C1_Witness ==
    /\ stage = "teachers" /\ rows # <<>>
    /\ LastCell = <<"a","+"," ","Z","z"," ","+","a">>
    /\ main = <<"A","n","n"," ","L","e","e">> /\ t1 = <<"Z","z">> /\ unknown = << <<"Z","z">> >> /\ extras = << <<"A","n","n"," ","L","e","e">> >>

Occurs(u, text) ==
    \E i \in 1..(Len(text) - Len(u) + 1) : SubSeq(text, i, i + Len(u) - 1) = u
UnknownTokens(cell) ==
    IF isna(cell) THEN {} ELSE {t \in Range(TokensOf(cell)) : ~Known(t)}

\* C7: once the columns are assigned, every token of every row that is not in the
\* code map is in that row's record (as Teachers, as Teacher1, or within Comments)
\* and in unknown_all, whatever put_extras_in_comments is.
C7_UnknownNeverDropped ==
    (stage = "teachers" /\ pc = "done") =>
        \A i \in DOMAIN rows : \A u \in UnknownTokens(rows[i].Teachers) :
            /\ u \in unknown_all
            /\ \/ out[i].Teachers = u
               \/ out[i].Teacher1 = u
               \/ Occurs(u, out[i].Comments)

\* What does hold of the code: the first two entries and the warning set, and the
\* later ones when extras go to the comments.
UnknownKeptInSlots ==
    (stage = "teachers" /\ pc = "done") =>
        \A i \in DOMAIN rows :
            LET toks == IF isna(rows[i].Teachers) THEN <<>> ELSE TokensOf(rows[i].Teachers)
            IN  \A k \in DOMAIN toks :
                    ~Known(toks[k]) =>
                        /\ toks[k] \in unknown_all
                        /\ k = 1 => out[i].Teachers = toks[k]
                        /\ k = 2 => out[i].Teacher1 = toks[k]
                        /\ (k > 2 /\ put_extras_in_comments) => Occurs(toks[k], out[i].Comments)

-----------------------------------------------------------------------------
(* Properties of the Group Name generation *)

StrictlyAscending(q) == \A i, j \in DOMAIN q : i < j => q[i] < q[j]

\* SE before every program, CS before every program but SE, the others by name
Before(a, b) ==
    /\ a # b
    /\ \/ a = <<"S","E">>
       \/ a = <<"C","S">> /\ b # <<"S","E">>
       \/ a \notin { <<"S","E">>, <<"C","S">> } /\ b \notin { <<"S","E">>, <<"C","S">> } /\ StrLess(a, b)

\* A rendered label read back, given the prefix it starts with: its segments are
\* the texts between " / ", a segment is "PROGRAM- n1,n2,...".
SegmentTexts(label, prefix) ==
    LET body == split(SubSeq(label, Len(prefix) + 2, Len(label)), "/")
    IN  [k \in DOMAIN body |-> strip(body[k])]
SegmentProgram(seg) == split(seg, "-")[1]
IntsOf(texts) == [k \in DOMAIN texts |-> int(texts[k])]
SegmentNumbers(seg) == IntsOf(split(strip(split(seg, "-")[2]), ","))
ProgramsAndNumbersOrdered(progs, nums, cohort) ==
    /\ Range(progs) = DOMAIN cohort
    /\ \A k \in DOMAIN progs : StrictlyAscending(nums[k]) /\ nums[k] = cohort[progs[k]]
    /\ \A i, j \in DOMAIN progs : i < j => Before(progs[i], progs[j])
LabelOrdered(segs, cohort) ==
    ProgramsAndNumbersOrdered([k \in DOMAIN segs |-> SegmentProgram(segs[k])],
                              [k \in DOMAIN segs |-> SegmentNumbers(segs[k])], cohort)
CohortAscending(cohort) == \A p \in DOMAIN cohort : StrictlyAscending(cohort[p])
DecodedOrdered(cohort) ==
    /\ CohortAscending(cohort)
    /\ strategy = "codes" => LabelOrdered(SegmentTexts(group_name, intake_label), cohort)

\* C3: in pattern decoding the group numbers of each program are distinct and
\* ascending as numbers, in the decoded cohort set and in the rendered label, and
\* the label's programs come in the order SE, CS, then the others by name,
\* whatever the order of the '+'-delimited segments of Students Sets.
C3_GroupsAscendingProgramsOrdered ==
    (stage = "groups" /\ pc = "done") =>
        DecodedOrdered(extract_groups_from_codes(students_sets))

\* C3's case: SE given after CS, its 10 before its 9.
C3_Witness ==
    /\ stage = "groups" /\ pc = "done" /\ strategy = "codes"
    /\ students_sets = <<"L","5"," ","C","S"," ","-","G","2","+","L","5"," ","S","E"," ","-","G","1","0","+","L","5"," ","s","e"," ","-"," ","9">>
    /\ intake_label = <<"L","5"," ","J","a","n"," ","2","6">>
    /\ group_name = <<"L","5"," ","J","a","n"," ","2","6"," ","S","E","-"," ","9",",","1","0"," ","/"," ","C","S","-"," ","2">>

ExampleSets == <<"L","5"," ","C","S"," ","-","G","1","+","L","5"," ","C","S"," ","-","G","2","+","L","5"," ","S","E"," ","-","G","1","0">>
\* The programs of a cohort set in the order of Before
InLabelOrder(progs) ==
    [k \in 1..Cardinality(progs) |->
        CHOOSE p \in progs : Cardinality({x \in progs : Before(x, p)}) = k - 1]
SegmentOf(cohort, p) == p \o <<"-"," ">> \o join(<<",">>, [k \in DOMAIN cohort[p] |-> str(cohort[p][k])])
PrefixedOnce(prefix, cohort, order) ==
    prefix \o <<" ">> \o join(<<" ","/"," ">>, [k \in DOMAIN order |-> SegmentOf(cohort, order[k])])
PrefixedEach(prefix, cohort, order) ==
    join(<<" ","/"," ">>, [k \in DOMAIN order |-> prefix \o <<" ">> \o SegmentOf(cohort, order[k])])
LabelPrefixedOnce(cohort) == PrefixedOnce(intake_label, cohort, InLabelOrder(DOMAIN cohort))
LabelPrefixedEach(cohort) == PrefixedEach(intake_label, cohort, InLabelOrder(DOMAIN cohort))

\* C4 (as the claim states it): in pattern decoding every segment is
\* `{intake_label} {Program}- {n1,n2,...}`, the segments joined by " / ", so that
\* the example decodes to "L5 Jan 26 SE- 10 / L5 Jan 26 CS- 1,2".
C4_LabelPrefixesEachSegment ==
    (stage = "groups" /\ pc = "done" /\ strategy = "codes") =>
        /\ group_name = LabelPrefixedEach(extract_groups_from_codes(students_sets))
        /\ (students_sets = ExampleSets /\ intake_label = <<"L","5"," ","J","a","n"," ","2","6">>) =>
              group_name = <<"L","5"," ","J","a","n"," ","2","6"," ","S","E","-"," ","1","0"," ","/"," ","L","5"," ","J","a","n"," ","2","6"," ","C","S","-"," ","1",",","2">>

\* C4, as the code has it: in pattern decoding the label is the intake label, a
\* space, and
\* the segments `{Program}- {n1,n2,...}` joined by " / ": the intake label stands
\* in front of the first segment only, so that the example decodes to
\* "L5 Jan 26 SE- 10 / CS- 1,2".
C4_LabelPrefixedOnce ==
    (stage = "groups" /\ pc = "done" /\ strategy = "codes") =>
        /\ group_name = LabelPrefixedOnce(extract_groups_from_codes(students_sets))
        /\ (students_sets = ExampleSets /\ intake_label = <<"L","5"," ","J","a","n"," ","2","6">>) =>
              group_name = <<"L","5"," ","J","a","n"," ","2","6"," ","S","E","-"," ","1","0"," ","/"," ","C","S","-"," ","1",",","2">>

\* C4's case: the example of the claim, two programs.
C4_Witness ==
    /\ stage = "groups" /\ pc = "done" /\ strategy = "codes"
    /\ students_sets = ExampleSets /\ intake_label = <<"L","5"," ","J","a","n"," ","2","6">>
    /\ group_name = <<"L","5"," ","J","a","n"," ","2","6"," ","S","E","-"," ","1","0"," ","/"," ","C","S","-"," ","1",",","2">>

\* The mapping table has a row for the (normalised) Students Sets of the row
MapHit ==
    /\ group_map_df.present
    /\ \E k \in DOMAIN group_map_df.table : group_map_df.table[k].StudentsSets = students_sets
Blank(x) == \A i \in DOMAIN x : x[i] \in WhiteSpace
Trimmed(x) == InkSpan(x, {i \in DOMAIN x : x[i] \notin WhiteSpace})
StrategyOrder(decoded) ==
    /\ MapHit =>
          /\ strategy = "map"
          /\ group_name =
                IF force_intake_override
                THEN override_intake_prefix(group_name_from_map(students_sets, group_map_df),
                                            intake_label)
                ELSE group_name_from_map(students_sets, group_map_df)
    /\ (~MapHit /\ decoded # <<>>) => (strategy = "codes" /\ group_name = decoded)
    /\ (~MapHit /\ decoded = <<>>) =>
          /\ strategy = "fallback"
          /\ group_name \in {intake_label \o <<" ">> \o students_sets,
                             Trimmed(intake_label \o <<" ">> \o students_sets)}

\* C5 (as the claim states it): the mapping table's label if the table has the
\* row, else the decoded label if there is one, else `{intake_label} {Students
\* Sets}` (with or without the blanks around it); and the Group Name is empty
\* only when the intake label and the Students Sets are both empty.
C5_EmptyOnlyIfBothEmpty ==
    (stage = "groups" /\ pc = "done") =>
        /\ StrategyOrder(build_group_name_from_codes(students_sets, intake_label))
        /\ group_name = <<>> => (intake_label = <<>> /\ students_sets = <<>>)

\* C5, as the code has it: the same order of strategies, the fallback being
\* `{intake_label} {Students Sets}` without the white space around it; and the
\* Group Name is empty only when the intake label is blank (empty or white space
\* only) and the Students Sets is empty.
C5_StrategiesInOrder ==
    (stage = "groups" /\ pc = "done") =>
        /\ StrategyOrder(build_group_name_from_codes(students_sets, intake_label))
        /\ strategy = "fallback" =>
              group_name = Trimmed(intake_label \o <<" ">> \o students_sets)
        /\ group_name = <<>> => (Blank(intake_label) /\ students_sets = <<>>)
        /\ (Blank(intake_label) /\ students_sets = <<>>) => group_name = <<>>

\* C5's case: a Students Sets with a code that the mapping table has a row for,
\* so that the table's label wins over the decoded one.
C5_Witness ==
    /\ stage = "groups" /\ pc = "done" /\ strategy = "map"
    /\ students_sets = <<"L","5"," ","C","S"," ","-","G","1">> /\ ~force_intake_override
    /\ group_name = <<"L","4","4"," ","S","e","p","t"," ","2","0","2","5"," ","I","T","-"," ","7">>
    /\ build_group_name_from_codes(students_sets, intake_label) # <<>>

\* "L<digits>", "<letters> <digits>" and "L<digits> <letters> <digits>"
LevelForm(x) == Len(x) >= 2 /\ x[1] = "L" /\ \A i \in 2..Len(x) : x[i] \in Digits
IntakeForm(x) ==
    \E k \in 2..(Len(x) - 1) :
        /\ x[k] = " "
        /\ \A i \in 1..(k - 1) : x[i] \in Alpha
        /\ \A i \in (k + 1)..Len(x) : x[i] \in Digits
LabelForm(x) ==
    \E k \in 3..(Len(x) - 3) :
        x[k] = " " /\ LevelForm(SubSeq(x, 1, k - 1)) /\ IntakeForm(SubSeq(x, k + 1, Len(x)))
FirstHit ==
    group_map_df.table[Min({k \in DOMAIN group_map_df.table :
                               group_map_df.table[k].StudentsSets = students_sets})]
TablePrefix == FirstHit.Level \o <<" ">> \o FirstHit.Intake
TableLabel == group_name_from_map(students_sets, group_map_df)
\* The Group Name is the intake label, a space, and what follows the table's own
\* "Level Intake " in the table's label
PrefixReplaced ==
    group_name = intake_label \o <<" ">> \o SubSeq(TableLabel, Len(TablePrefix) + 2, Len(TableLabel))

-----------------------------------------------------------------------------
(* Properties of the session aggregation *)

Returned == stage = "sessions" /\ pc \in {"done", "stopped", "raised"}

\* The Hour texts of the rows of Activity Id `id`, and what they denote.
HoursOf(id) ==
    {norm(df_hourly[i].Hour) : i \in {j \in DOMAIN df_hourly : df_hourly[j].ActivityId = id}}
    \ {<<>>}
MinutesOf(id) == {parse_time_hhmm(h) : h \in HoursOf(id)} \ {ValueError}
KeysIn == {df_hourly[i].ActivityId : i \in DOMAIN df_hourly}
SessionsOf(id) == {i \in DOMAIN sessions : sessions[i].key[1] = id}

\* The session of Activity Id `id` spans the minutes of M: earliest to latest + 1h.
Spans(id, M) ==
    /\ Cardinality(SessionsOf(id)) = 1
    /\ \A i \in SessionsOf(id) :
         /\ sessions[i].From = fmt_time_hhmmss(Min(M))
         /\ sessions[i].To = fmt_time_hhmmss(Max(M) + MinutesPerHour)
         /\ Len(sessions[i].From) = 8 /\ Len(sessions[i].To) = 8

OneSessionPerKey ==
    /\ \A i \in DOMAIN sessions : sessions[i].key[1] \in KeysIn
    /\ \A id \in KeysIn :
         IF HoursOf(id) = {} THEN SessionsOf(id) = {}
         ELSE Spans(id, {parse_time_hhmm(h) : h \in HoursOf(id)})

\* C2: when build_sessions_for_cbs has ended there is exactly one session for each
\* session key with a non-empty Hour, from its earliest Hour to its latest Hour
\* plus one hour as HH:MM:SS, whatever the order of the rows, and none for a key
\* whose Hours are all empty.
C2_OneSessionPerKeyWithHours == Returned => OneSessionPerKey

\* The same statement where every non-empty Hour of the table is a time of day.
SessionsWhenHoursParse == Returned /\ pc # "raised" => OneSessionPerKey

\* C8: an Hour that is not empty and is not a time HH:MM leaves the aggregation
\* running: nothing is raised, every key with a parseable Hour gets its session
\* from its parseable Hours, and a key with none gets no session.
C8_UnparseableHourExcludesRow ==
    Returned =>
        /\ pc # "raised"
        /\ \A id \in KeysIn :
             IF MinutesOf(id) = {} THEN SessionsOf(id) = {}
             ELSE Spans(id, MinutesOf(id))

\* The time of day HH:MM:SS in minutes, and the one-hour slots from From up to To
\* (To at or before From is a time of the next day).
MinutesOfDay(text) == parse_time_hhmm(SubSeq(text, 1, 5))
SlotsOf(s) ==
    LET from == MinutesOfDay(s.From)
        to   == MinutesOfDay(s.To)
        upto == IF to <= from THEN to + HoursPerDay * MinutesPerHour ELSE to
    IN  {from + MinutesPerHour * k : k \in {j \in 0..(HoursPerDay - 1) :
                                             from + MinutesPerHour * j < upto}}

\* C9: every one-hour slot between From Time Slot and To Time Slot of a session is
\* the Hour of a row of the session's key.
C9_SessionsContiguous ==
    \A i \in DOMAIN sessions : SlotsOf(sessions[i]) \subseteq MinutesOf(sessions[i].key[1])

\* C10: From Time Slot is before To Time Slot, as HH:MM:SS texts, in every session.
C10_FromBeforeTo ==
    \A i \in DOMAIN sessions : StrLess(sessions[i].From, sessions[i].To)

\* Where From Time Slot is not before To Time Slot, the latest Hour is 23:00 or later.
FromBeforeToUnlessPastMidnight ==
    \A i \in DOMAIN sessions :
        \/ StrLess(sessions[i].From, sessions[i].To)
        \/ Max(MinutesOf(sessions[i].key[1])) >= (HoursPerDay - 1) * MinutesPerHour

=============================================================================
